---- MODULE Spec2Model ----
(***************************************************************************)
(* Email order ingestion of pfm-web: the Gmail source adapter, the Amazon  *)
(* email parser and the sync orchestrator (EmailSyncService), together     *)
(* with the two other writers of the amazon_orders table (the CSV importer *)
(* and the web delete route).                                              *)
(*                                                                         *)
(* Texts are sequences of tokens.  A token stands for one lexical unit of  *)
(* the mail body ("Order", "#", an order number, an amount, a keyword), so *)
(* that the regular expressions of the parser become searches over token   *)
(* sequences.  An HTML body is a sequence of elements (p, div, table);     *)
(* every element has rows of cells, a cell is a sequence of tokens.  A     *)
(* plain-text body is a sequence of lines.                                 *)
(***************************************************************************)
EXTENDS Integers, Sequences, FiniteSets, TLC

VARIABLES
    db,            \* committed database: [orders, log]
    sess,          \* what db.session sees: committed state plus pending writes
    pc,            \* position of sync_orders
    stats,         \* the stats dict of the current / last run
    user,          \* self.user_id: the user whose mailbox is synced
    yielded,       \* emails the source has yielded in this run, in order
    lastCommitted, \* emails yielded by the latest run that committed
    prevYielded,   \* lastCommitted as it was when this run started
    startDb,       \* the committed database when this run started
    before,        \* sess before the latest loop iteration
    beforeStats,   \* stats before the latest loop iteration
    calls,         \* collaborators invoked by the latest loop iteration
    outcome,       \* what the latest loop iteration did
    runs,          \* calls of sync_orders so far; datetime.now() of the run
    ext,           \* requests served by the other writers so far
    pulled,        \* messages the source has fetched over all runs
    creds,         \* what _load_credentials did for the latest service object
    parser         \* a direct call of parse_email: its arguments and result

vars == <<db, sess, pc, stats, user, yielded, lastCommitted, prevYielded,
          startDb, before, beforeStats, calls, outcome, runs, ext, pulled,
          creds, parser>>

None == "None"

----------------------------------------------------------------------------
(* Bounds *)

MaxPulled == 3
MaxRuns == 2
MaxExternal == 2

----------------------------------------------------------------------------
(* Program constants *)

MaxResults == 100
SubjectLimit == 500
ErrorLimit == 1000
NameLimit == 200
MaxItems == 20
NameMinLen == 5
DivMinLen == 10
DivMaxLen == 500

Users == {1, 2}

----------------------------------------------------------------------------
(* Sequences *)

RECURSIVE Flatten(_)
Flatten(ss) == IF ss = <<>> THEN <<>> ELSE Head(ss) \o Flatten(Tail(ss))

Truncate(s, n) == IF Len(s) <= n THEN s ELSE SubSeq(s, 1, n)

Last(s) == s[Len(s)]

Range(s) == {s[i] : i \in 1..Len(s)}

SetMax(S) == CHOOSE x \in S : \A y \in S : y <= x

----------------------------------------------------------------------------
(* Tokens *)

OrderIdTokens == {"111-1111111-1111111", "222-2222222-2222222"}

\* text that matches \w+\s+\d+,\s+\d{4}
DateTokens == {"March 3, 2025", "Mar 3, 2025", "Smarch 3, 2025"}

\* text that matches \$[\d,]+\.\d{2}
AmountTokens == {"$19.99", "$39.98", "$42.00", "$17.00", "$0.00"}

\* float(group(1).replace(',', '')), in cents
AmountValue(t) ==
    CASE t = "$19.99" -> 1999
      [] t = "$39.98" -> 3998
      [] t = "$42.00" -> 4200
      [] t = "$17.00" -> 1700
      [] t = "$0.00"  -> 0

\* datetime.strptime(date_str, '%B %d, %Y'): full month names only
StrptimeFull(t) == IF t = "March 3, 2025" THEN << <<2025, 3, 3>> >> ELSE <<>>

\* datetime.strptime(date_str, '%b %d, %Y'): abbreviated month names only
StrptimeAbbr(t) == IF t = "Mar 3, 2025" THEN << <<2025, 3, 3>> >> ELSE <<>>

\* text that matches \d+ after a quantity label
NumberTokens == {"0", "2"}

\* text that matches [A-Z0-9]{10}
AsinTokens == {"B00TEST001"}

\* len() of the token's text
TokLen(t) ==
    CASE t \in OrderIdTokens -> 19
      [] t = "March 3, 2025" -> 13
      [] t = "Mar 3, 2025" -> 11
      [] t = "Smarch 3, 2025" -> 14
      [] t \in {"$19.99", "$39.98", "$42.00", "$17.00"} -> 6
      [] t = "$0.00" -> 5
      [] t \in NumberTokens -> 1
      [] t \in AsinTokens -> 10
      [] t = "#" -> 1
      [] t \in {"Qty", "Pen"} -> 3
      [] t \in {"Date", "ASIN", "Item"} -> 4
      [] t \in {"Order", "Total", "Grand", "Price", "Mouse"} -> 5
      [] t \in {"shipped"} -> 7
      [] t \in {"Product"} -> 7
      [] t \in {"Wireless"} -> 8
      [] t \in {"delivered", "preparing"} -> 9
      [] t \in {"dispatched"} -> 10
      [] OTHER -> 4

RECURSIVE TextLen(_)
\* len(' '.join(tokens))
TextLen(toks) ==
    IF toks = <<>> THEN 0
    ELSE IF Len(toks) = 1 THEN TokLen(toks[1])
    ELSE TokLen(Head(toks)) + 1 + TextLen(Tail(toks))

----------------------------------------------------------------------------
(* Bodies *)

NoBody == [present |-> FALSE, doc |-> <<>>]
Html(doc) == [present |-> TRUE, doc |-> doc]
Text(lines) == [present |-> TRUE, doc |-> lines]

\* elements of an HTML body
P(toks) == [tag |-> "p", rows |-> << <<toks>> >>]
Div(toks) == [tag |-> "div", rows |-> << <<toks>> >>]
Table(rows) == [tag |-> "table", rows |-> rows]

\* the text of one table row / block, cell texts in document order
RowText(row) == Flatten(row)

ElementText(el) == Flatten([i \in 1..Len(el.rows) |-> RowText(el.rows[i])])

\* soup.get_text() as lines: one line per block and per table row
RECURSIVE GetLines(_)
GetLines(doc) ==
    IF doc = <<>> THEN <<>>
    ELSE [i \in 1..Len(Head(doc).rows) |-> RowText(Head(doc).rows[i])]
            \o GetLines(Tail(doc))

\* soup.get_text(): the visible text of the whole document
GetText(doc) == Flatten(GetLines(doc))

----------------------------------------------------------------------------
(* Regular expressions as token searches *)

\* positions where `prefix` is followed by a token of `captured`
MatchPositions(toks, prefix, captured) ==
    {i \in 1..Len(toks) :
        /\ i + Len(prefix) <= Len(toks)
        /\ SubSeq(toks, i, i + Len(prefix) - 1) = prefix
        /\ toks[i + Len(prefix)] \in captured}

SetMin(S) == CHOOSE x \in S : \A y \in S : x <= y

\* re.search(...).group(1) of the leftmost match, <<>> when there is none
SearchPrefix(toks, prefix, captured) ==
    LET m == MatchPositions(toks, prefix, captured)
    IN  IF m = {} THEN <<>> ELSE <<toks[SetMin(m) + Len(prefix)]>>

\* ORDER_ID_PATTERN = Order\s*#?\s*(\d{3}-\d{7}-\d{7})
OrderIdSearch(toks) ==
    LET m == MatchPositions(toks, <<"Order">>, OrderIdTokens)
                \cup MatchPositions(toks, <<"Order", "#">>, OrderIdTokens)
        i == SetMin(m)
    IN  IF m = {} THEN None
        ELSE IF toks[i + 1] = "#" THEN toks[i + 2] ELSE toks[i + 1]

\* DATE_PATTERN = Order\s+Date:?\s*(\w+\s+\d+,\s+\d{4})
DateSearch(toks) == SearchPrefix(toks, <<"Order", "Date">>, DateTokens)

\* PRICE_PATTERN = \$?([\d,]+\.\d{2})
PriceSearch(toks) == SearchPrefix(toks, <<>>, AmountTokens)

\* ASIN_PATTERN = ASIN:?\s*([A-Z0-9]{10})
AsinSearch(toks) == SearchPrefix(toks, <<"ASIN">>, AsinTokens)

\* (?:Qty|Quantity):?\s*(\d+)
QtySearch(toks) == SearchPrefix(toks, <<"Qty">>, NumberTokens)

\* int(qty_match.group(1))
IntValue(t) == IF t = "0" THEN 0 ELSE 2

Now(t) == [src |-> "now", val |-> <<t>>]
Parsed(d) == [src |-> "text", val |-> d]

----------------------------------------------------------------------------
(* AmazonEmailParser *)

_extract_order_id(doc) == OrderIdSearch(GetText(doc))

_extract_order_date(doc, now) ==
    LET m == DateSearch(GetText(doc))
    IN  IF m = <<>> THEN Now(now)
        ELSE IF StrptimeFull(m[1]) # <<>> THEN Parsed(StrptimeFull(m[1])[1])
        ELSE IF StrptimeAbbr(m[1]) # <<>> THEN Parsed(StrptimeAbbr(m[1])[1])
        ELSE Now(now)

_extract_total(doc) ==
    LET t == GetText(doc)
        p1 == SearchPrefix(t, <<"Order", "Total">>, AmountTokens)
        p2 == SearchPrefix(t, <<"Grand", "Total">>, AmountTokens)
        p3 == SearchPrefix(t, <<"Total">>, AmountTokens)
    IN  IF p1 # <<>> THEN AmountValue(p1[1])
        ELSE IF p2 # <<>> THEN AmountValue(p2[1])
        ELSE IF p3 # <<>> THEN AmountValue(p3[1])
        ELSE 0

\* mutant: the keywords are checked in the order shipped, delivered, preparing
_extract_shipment_status_shipped_first(doc) ==
    LET t == Range(GetText(doc))
    IN  IF "shipped" \in t \/ "dispatched" \in t THEN "Shipped"
        ELSE IF "delivered" \in t THEN "Delivered"
        ELSE IF "preparing" \in t THEN "Preparing"
        ELSE "Pending"

_extract_shipment_status(doc) ==
    LET t == Range(GetText(doc))
    IN  IF "delivered" \in t THEN "Delivered"
        ELSE IF "shipped" \in t \/ "dispatched" \in t THEN "Shipped"
        ELSE IF "preparing" \in t THEN "Preparing"
        ELSE "Pending"

RECURSIVE CleanName(_, _)
\* re.sub(r'\$[\d,]+\.\d{2}', '', name); re.sub(r'Qty:?\s*\d+', '', name);
\* with asin: re.sub(r'ASIN:?\s*[A-Z0-9]{10}', '', name)
CleanName(toks, asin) ==
    IF toks = <<>> THEN <<>>
    ELSE IF Head(toks) \in AmountTokens THEN CleanName(Tail(toks), asin)
    ELSE IF /\ Head(toks) = "Qty"
            /\ Len(toks) >= 2
            /\ toks[2] \in NumberTokens
         THEN CleanName(Tail(Tail(toks)), asin)
    ELSE IF /\ asin
            /\ Head(toks) = "ASIN"
            /\ Len(toks) >= 2
            /\ toks[2] \in AsinTokens
         THEN CleanName(Tail(Tail(toks)), asin)
    ELSE <<Head(toks)>> \o CleanName(Tail(toks), asin)

RECURSIVE TruncateChars(_, _)
\* name[:n], to the token
TruncateChars(toks, n) ==
    IF TextLen(toks) <= n THEN toks
    ELSE TruncateChars(SubSeq(toks, 1, Len(toks) - 1), n)

\* max(name_candidates, key=len): the first cell of maximal length
LongestCell(cells) ==
    LET best == CHOOSE i \in 1..Len(cells) :
                    /\ \A j \in 1..Len(cells) : TextLen(cells[j]) <= TextLen(cells[i])
                    /\ \A j \in 1..(i - 1) : TextLen(cells[j]) < TextLen(cells[i])
    IN  cells[best]

ParsedOrderItem(name, quantity, price, asin) ==
    [name |-> name, quantity |-> quantity, price |-> price, asin |-> asin]

\* <<item>>, or <<>> for None
_parse_item_row(row) ==
    LET text == Flatten(row)
        qty_match == QtySearch(text)
        quantity == IF qty_match # <<>> THEN IntValue(qty_match[1]) ELSE 1
        price_match == PriceSearch(text)
        price == IF price_match # <<>> THEN AmountValue(price_match[1]) ELSE 0
        asin_match == AsinSearch(text)
        asin == IF asin_match # <<>> THEN asin_match[1] ELSE None
        name == CleanName(LongestCell(row), FALSE)
    IN  IF Len(row) < 2 THEN <<>>
        ELSE IF "Product" \in Range(text) /\ "Price" \in Range(text) THEN <<>>
        ELSE IF name # <<>> /\ TextLen(name) > NameMinLen /\ price > 0
             THEN <<ParsedOrderItem(name, quantity, price, asin)>>
        ELSE <<>>

_parse_item_from_text(text) ==
    LET price_match == PriceSearch(text)
        price == AmountValue(price_match[1])
        qty_match == QtySearch(text)
        quantity == IF qty_match # <<>> THEN IntValue(qty_match[1]) ELSE 1
        asin_match == AsinSearch(text)
        asin == IF asin_match # <<>> THEN asin_match[1] ELSE None
        name == TruncateChars(CleanName(text, TRUE), NameLimit)
    IN  IF price_match = <<>> THEN <<>>
        ELSE IF name # <<>> /\ TextLen(name) > NameMinLen /\ price > 0
             THEN <<ParsedOrderItem(name, quantity, price, asin)>>
        ELSE <<>>

\* items.append(item) when item and item not in items
AppendNew(items, item) ==
    IF item # <<>> /\ item[1] \notin Range(items) THEN items \o item ELSE items

RECURSIVE ScanLines(_, _, _)
ScanLines(lines, i, items) ==
    IF i > Len(lines) THEN items
    ELSE IF PriceSearch(lines[i]) = <<>> THEN ScanLines(lines, i + 1, items)
    ELSE LET context_start == IF i - 2 > 1 THEN i - 2 ELSE 1
             context_end == IF i + 2 < Len(lines) THEN i + 2 ELSE Len(lines)
             context == Flatten(SubSeq(lines, context_start, context_end))
         IN  ScanLines(lines, i + 1, AppendNew(items, _parse_item_from_text(context)))

_extract_items_from_full_text(lines) ==
    Truncate(ScanLines(lines, 1, <<>>), MaxItems)

RECURSIVE TableItems(_)
\* strategy 1: rows of the tables that mention product or item
TableItems(doc) ==
    IF doc = <<>> THEN <<>>
    ELSE LET el == Head(doc)
             t == Range(ElementText(el))
             rows == IF el.tag = "table" /\ ("Product" \in t \/ "Item" \in t)
                     THEN Flatten([i \in 1..Len(el.rows) |-> _parse_item_row(el.rows[i])])
                     ELSE <<>>
         IN  rows \o TableItems(Tail(doc))

RECURSIVE DivItems(_, _)
\* strategy 2: div blocks with a price, appended to what strategy 1 found
DivItems(doc, items) ==
    IF doc = <<>> THEN items
    ELSE LET el == Head(doc)
             div_text == ElementText(el)
             hit == /\ el.tag = "div"
                    /\ PriceSearch(div_text) # <<>>
                    /\ TextLen(div_text) > DivMinLen
                    /\ TextLen(div_text) < DivMaxLen
         IN  DivItems(Tail(doc),
                      IF hit THEN AppendNew(items, _parse_item_from_text(div_text))
                      ELSE items)

_extract_items(doc) ==
    LET items == DivItems(doc, TableItems(doc))
    IN  IF items = <<>> THEN _extract_items_from_full_text(GetLines(doc)) ELSE items

ParsedAmazonOrder(order_id, order_date, items, total_amount, shipment_status) ==
    [order_id |-> order_id, order_date |-> order_date, items |-> items,
     total_amount |-> total_amount, currency |-> "USD",
     shipment_status |-> shipment_status]

\* <<order>>, or <<>> for None
_parse_html(doc, now) ==
    IF _extract_order_id(doc) = None THEN <<>>
    ELSE <<ParsedAmazonOrder(_extract_order_id(doc), _extract_order_date(doc, now),
                             _extract_items(doc), _extract_total(doc),
                             _extract_shipment_status(doc))>>

_parse_text(lines, now) ==
    LET text == Flatten(lines)
        date_match == DateSearch(text)
        order_date == IF date_match # <<>> /\ StrptimeFull(date_match[1]) # <<>>
                      THEN Parsed(StrptimeFull(date_match[1])[1])
                      ELSE Now(now)
        total_match == SearchPrefix(text, <<"Total">>, AmountTokens)
        total == IF total_match # <<>> THEN AmountValue(total_match[1]) ELSE 0
    IN  IF OrderIdSearch(text) = None THEN <<>>
        ELSE <<ParsedAmazonOrder(OrderIdSearch(text), order_date,
                                 _extract_items_from_full_text(lines), total, None)>>

\* a body is truthy when it is present and not the empty string
Truthy(body) == body.present /\ body.doc # <<>>

\* mutant: the plain-text body is tried when the HTML body yields no order
parse_email_text_fallback(email_html, email_text, now) ==
    IF Truthy(email_html) /\ _parse_html(email_html.doc, now) # <<>>
    THEN _parse_html(email_html.doc, now)
    ELSE IF Truthy(email_text) THEN _parse_text(email_text.doc, now)
    ELSE <<>>

parse_email(email_html, email_text, now) ==
    IF Truthy(email_html) THEN _parse_html(email_html.doc, now)
    ELSE IF Truthy(email_text) THEN _parse_text(email_text.doc, now)
    ELSE <<>>

----------------------------------------------------------------------------
(* Bodies of the mailbox *)

\* the normalized record _parse_message returns
Email(id, message_id, subject, date, body_html, body_text) ==
    [id |-> id, message_id |-> message_id, subject |-> subject, date |-> date,
     body_html |-> body_html, body_text |-> body_text]

Order1 == "111-1111111-1111111"
Order2 == "222-2222222-2222222"

\* order confirmation: the scenario of the specification
ConfirmHtml ==
    << P(<<"Order", "#", Order1>>),
       P(<<"Order", "Date", "March 3, 2025">>),
       Table(<< << <<"Product">>, <<"Price">> >>,
                << <<"Wireless", "Mouse">>, <<"Qty", "2">>, <<"$19.99">> >> >>),
       P(<<"Order", "Total", "$39.98">>) >>

\* shipment update for the same order, with another total and no date
ShippedHtml ==
    << P(<<"Your", "package", "was", "shipped">>),
       P(<<"Order", "#", Order1>>),
       Div(<<"Wireless", "Mouse", "$17.00">>),
       P(<<"Grand", "Total", "$17.00">>) >>

\* marketing mail: a price but no order number
PromoHtml == << Div(<<"Wireless", "Mouse", "$19.99">>) >>

\* a plain-text confirmation of the second order
ConfirmText ==
    << <<"Order", Order2>>, <<"Pen", "Qty", "2", "$17.00">>, <<"Total", "$42.00">> >>

----------------------------------------------------------------------------
(* GmailClient: raw messages of the Gmail API and their normalization *)

\* base64url data of a body: decodable to content, or not
Data(content) == <<[decodable |-> TRUE, content |-> content]>>
BadData == <<[decodable |-> FALSE, content |-> <<>>]>>
NoData == <<>>

\* a MIME part: part['mimeType'], part['body'].get('data'), part['parts']
Part(mimeType, data, parts) == [mimeType |-> mimeType, data |-> data, parts |-> parts]

\* a message of the mailbox: whether messages().get() returns it, whether
\* its payload has the key 'headers', its headers and its payload
Message(id, get, has_headers, headers, payload) ==
    [id |-> id, get |-> get, has_headers |-> has_headers, headers |-> headers,
     payload |-> payload]

Mailbox ==
    { Message("g1", "ok", TRUE,
              << <<"Message-ID", "<m1@amazon.com>">>, <<"Subject", <<"Your", "order">> >>,
                 <<"Date", "Mon, 3 Mar 2025">> >>,
              Part("multipart/mixed", NoData,
                   << Part("multipart/alternative", NoData,
                           << Part("text/html", Data(ConfirmHtml), <<>>) >>),
                      Part("application/pdf", NoData, <<>>) >>)),
      Message("g2", "ok", TRUE,
              << <<"Message-ID", "<m2@amazon.com>">>,
                 <<"Subject", <<"Your", "package", "shipped">> >>,
                 <<"Date", "Tue, 4 Mar 2025">> >>,
              Part("text/html", Data(ShippedHtml), <<>>)),
      Message("g3", "ok", TRUE,
              << <<"Message-ID", "<m3@amazon.com>">>, <<"Subject", <<"Your", "order">> >>,
                 <<"Date", "Mon, 3 Mar 2025">> >>,
              Part("text/plain", Data(ConfirmText), <<>>)),
      Message("g4", "ok", TRUE,
              << <<"Message-Id", "<m4@amazon.com>">>, <<"Subject", <<"Deals">> >>,
                 <<"Date", "Mon, 3 Mar 2025">> >>,
              Part("multipart/mixed", NoData,
                   << Part("multipart/related", NoData,
                           << Part("multipart/alternative", NoData,
                                   << Part("text/plain", Data(ConfirmText), <<>>),
                                      Part("text/html", Data(PromoHtml), <<>>) >>) >>) >>)),
      Message("g5", "ok", TRUE,
              << <<"Subject", <<"Your", "order">> >>, <<"Date", "Wed, 5 Mar 2025">> >>,
              Part("text/html", BadData, <<>>)),
      Message("g6", "HttpError", TRUE, <<>>, Part("text/html", Data(ConfirmHtml), <<>>)),
      Message("g7", "ok", FALSE, <<>>, Part("text/html", Data(ConfirmHtml), <<>>)) }

\* _decode_body: the decoded body, or "" when decoding raises
_decode_body(data) == IF data.decodable THEN data.content ELSE <<>>

RECURSIVE HeadersGet(_, _, _)
\* {h['name']: h['value'] for h in headers}.get(name, default)
HeadersGet(headers, name, default) ==
    IF headers = <<>> THEN default
    ELSE IF Last(headers)[1] = name THEN Last(headers)[2]
    ELSE HeadersGet(SubSeq(headers, 1, Len(headers) - 1), name, default)

\* one step of the loops over parts: the bodies after a leaf part
LeafBodies(bodies, part) ==
    IF part.mimeType = "text/html"
    THEN IF part.data # NoData
         THEN [bodies EXCEPT !.body_html = Html(_decode_body(part.data[1]))]
         ELSE bodies
    ELSE IF part.mimeType = "text/plain"
    THEN IF part.data # NoData
         THEN [bodies EXCEPT !.body_text = Text(_decode_body(part.data[1]))]
         ELSE bodies
    ELSE bodies

RECURSIVE SubpartBodies(_, _)
\* for subpart in part['parts']
SubpartBodies(bodies, parts) ==
    IF parts = <<>> THEN bodies
    ELSE SubpartBodies(LeafBodies(bodies, Head(parts)), Tail(parts))

RECURSIVE PartBodies(_, _)
\* for part in msg['payload']['parts']
PartBodies(bodies, parts) ==
    IF parts = <<>> THEN bodies
    ELSE LET part == Head(parts)
             next == IF part.mimeType \in {"text/html", "text/plain"}
                     THEN LeafBodies(bodies, part)
                     ELSE IF part.parts # <<>>
                     THEN SubpartBodies(bodies, part.parts)
                     ELSE bodies
         IN  PartBodies(next, Tail(parts))

\* the body of a single part message: text/html, or anything else as text
SinglePartBodies(bodies, payload) ==
    IF payload.data = NoData THEN bodies
    ELSE IF payload.mimeType = "text/html"
    THEN [bodies EXCEPT !.body_html = Html(_decode_body(payload.data[1]))]
    ELSE [bodies EXCEPT !.body_text = Text(_decode_body(payload.data[1]))]

\* _parse_message of a message whose payload has headers
_parse_message(msg) ==
    LET none == [body_html |-> NoBody, body_text |-> NoBody]
        bodies == IF msg.payload.parts # <<>>
                  THEN PartBodies(none, msg.payload.parts)
                  ELSE SinglePartBodies(none, msg.payload)
    IN  Email(msg.id, HeadersGet(msg.headers, "Message-ID", ""),
              HeadersGet(msg.headers, "Subject", <<>>),
              HeadersGet(msg.headers, "Date", ""),
              bodies.body_html, bodies.body_text)

RECURSIVE HasBadData(_)
\* some body of the message is data that _decode_body cannot decode
HasBadData(part) ==
    \/ part.data = BadData
    \/ \E i \in 1..Len(part.parts) : HasBadData(part.parts[i])

RECURSIVE HasPartWithData(_, _)
\* some part of the given MIME type, at any depth, carries body data
HasPartWithData(part, mimeType) ==
    \/ part.mimeType = mimeType /\ part.data # NoData
    \/ \E i \in 1..Len(part.parts) : HasPartWithData(part.parts[i], mimeType)

\* messages().get().execute() or _parse_message raises for this message
Unfetchable(msg) == msg.get # "ok" \/ ~msg.has_headers

\* the normalized emails search_amazon_emails can yield
Emails == {_parse_message(msg) : msg \in {m \in Mailbox : ~Unfetchable(m)}}

----------------------------------------------------------------------------
(* Database: tables amazon_orders (with amazon_order_items) and
   email_processing_log *)

EmptyDb == [orders |-> {}, log |-> {}]

\* the next INTEGER PRIMARY KEY of a table
NextId(rows) == IF rows = {} THEN 1 ELSE SetMax({r.id : r \in rows}) + 1

\* AmazonOrder.query.filter_by(order_number=...).first(): <<row>> or <<>>
OrderByNumber(orders, order_number) ==
    LET found == {o \in orders : o.order_number = order_number}
    IN  IF found = {} THEN <<>>
        ELSE <<CHOOSE o \in found : \A p \in found : o.id <= p.id>>

\* mutant: the lookup compares the wrong column and never matches
LogRowsFor_wrong_column(log, message_id) == {}

\* rows of email_processing_log WHERE email_message_id = :msg_id
LogRowsFor(log, message_id) == {l \in log : l.email_message_id = message_id}

\* attributes of the mapped class AmazonOrder
AmazonOrderAttrs ==
    {"id", "order_number", "order_date", "total_amount", "currency",
     "payment_method", "shipment_status", "raw_payload", "receipt_id",
     "receipt", "items", "created_at", "query", "metadata", "registry"}

\* the declarative constructor: TypeError for a keyword that is no attribute
ConstructorRejects(kwargs) == kwargs \ AmazonOrderAttrs

AmazonOrderItem(item) ==
    [item_name |-> item.name, quantity |-> item.quantity,
     unit_price |-> item.price, total_price |-> item.price * item.quantity,
     asin |-> item.asin]

----------------------------------------------------------------------------
(* EmailSyncService *)

\* mutant: the dedup check is missing
_is_email_processed_never(log, message_id) == FALSE

\* mutant: the lookup joins amazon_orders, so a row whose order is gone is missed
_is_email_processed_joined(log, message_id) ==
    \E l \in LogRowsFor(log, message_id) :
        \/ l.amazon_order_id = <<>>
        \/ \E o \in sess.orders : <<o.id>> = l.amazon_order_id

\* mutant: an empty Message-ID is never taken as already processed
_is_email_processed_nonempty(log, message_id) ==
    message_id # "" /\ LogRowsFor(log, message_id) # {}

_is_email_processed(log, message_id) == LogRowsFor(log, message_id) # {}

CreateKwargs ==
    {"user_id", "order_number", "order_date", "total_amount", "currency",
     "shipment_status"}

\* mutant: the lookup result is always taken as an existing order
_create_or_update_order_found_always(orders, parsed_order, email, user_id) ==
    LET existing == OrderByNumber(orders, parsed_order.order_id)
    IN  [raised |-> <<>>, created |-> FALSE,
         orders |-> IF existing = <<>> THEN orders
                    ELSE (orders \ {existing[1]}) \cup
                         {[existing[1] EXCEPT
                             !.shipment_status = parsed_order.shipment_status]}]

\* mutant: the found branch also refreshes the total of the stored order
_create_or_update_order_overwrite(orders, parsed_order, email, user_id) ==
    LET existing == OrderByNumber(orders, parsed_order.order_id)
    IN  IF existing # <<>>
        THEN [raised |-> <<>>, created |-> FALSE,
              orders |-> (orders \ {existing[1]}) \cup
                         {[existing[1] EXCEPT
                             !.shipment_status =
                                 IF parsed_order.shipment_status # None
                                 THEN parsed_order.shipment_status ELSE @,
                             !.total_amount = parsed_order.total_amount]}]
        ELSE [raised |-> <<"TypeError:", "invalid", "keyword", "argument", "for",
                           "AmazonOrder">>,
              created |-> FALSE, orders |-> orders]

\* mutant: the found branch stores `shipment_status or 'Pending'` unguarded
_create_or_update_order_default_status(orders, parsed_order, email, user_id) ==
    LET existing == OrderByNumber(orders, parsed_order.order_id)
    IN  IF existing # <<>>
        THEN [raised |-> <<>>, created |-> FALSE,
              orders |-> (orders \ {existing[1]}) \cup
                         {[existing[1] EXCEPT
                             !.shipment_status =
                                 IF parsed_order.shipment_status # None
                                 THEN parsed_order.shipment_status ELSE "Pending"]}]
        ELSE [raised |-> <<"TypeError:", "invalid", "keyword", "argument", "for",
                           "AmazonOrder">>,
              created |-> FALSE, orders |-> orders]

\* mutant: the found branch only moves the status forward in the lifecycle
_create_or_update_order_forward_only(orders, parsed_order, email, user_id) ==
    LET existing == OrderByNumber(orders, parsed_order.order_id)
        rank == [s \in {"Pending", "Preparing", "Shipped", "Delivered"} |->
                    CASE s = "Pending" -> 0 [] s = "Preparing" -> 1
                      [] s = "Shipped" -> 2 [] s = "Delivered" -> 3]
    IN  IF existing # <<>>
        THEN [raised |-> <<>>, created |-> FALSE,
              orders |-> IF /\ parsed_order.shipment_status # None
                            /\ rank[parsed_order.shipment_status]
                                  > rank[existing[1].shipment_status]
                         THEN (orders \ {existing[1]}) \cup
                              {[existing[1] EXCEPT
                                  !.shipment_status = parsed_order.shipment_status]}
                         ELSE orders]
        ELSE [raised |-> <<"TypeError:", "invalid", "keyword", "argument", "for",
                           "AmazonOrder">>,
              created |-> FALSE, orders |-> orders]

\* [raised |-> str(e) or <<>>, created |-> the return value, orders |-> the table]
_create_or_update_order(orders, parsed_order, email, user_id) ==
    LET existing == OrderByNumber(orders, parsed_order.order_id)
        changed == /\ parsed_order.shipment_status # None
                   /\ parsed_order.shipment_status # existing[1].shipment_status
        order == [id |-> NextId(orders),
                  order_number |-> parsed_order.order_id,
                  order_date |-> parsed_order.order_date,
                  total_amount |-> parsed_order.total_amount,
                  currency |-> parsed_order.currency,
                  shipment_status |-> IF parsed_order.shipment_status # None
                                      THEN parsed_order.shipment_status
                                      ELSE "Pending",
                  items |-> [i \in 1..Len(parsed_order.items) |->
                                AmazonOrderItem(parsed_order.items[i])]]
    IN  IF existing # <<>>
        THEN [raised |-> <<>>, created |-> FALSE,
              orders |-> IF changed
                         THEN (orders \ {existing[1]}) \cup
                              {[existing[1] EXCEPT
                                  !.shipment_status = parsed_order.shipment_status]}
                         ELSE orders]
        ELSE IF ConstructorRejects(CreateKwargs) # {}
        THEN [raised |-> <<"TypeError:", "invalid", "keyword", "argument", "for",
                           "AmazonOrder">>,
              created |-> FALSE, orders |-> orders]
        ELSE IF ~email.body_html.present
        THEN [raised |-> <<"TypeError:", "'NoneType'", "object", "is", "not",
                           "subscriptable">>,
              created |-> FALSE, orders |-> orders]
        ELSE [raised |-> <<>>, created |-> TRUE, orders |-> orders \cup {order}]

\* mutant: every row is written with status 'success'
_log_email_processing_always_success(s, email, status, order_id, error, user_id, now) ==
    IF LogRowsFor(s.log, email.message_id) # {} THEN s.log
    ELSE s.log \cup
         {[id |-> NextId(s.log), user_id |-> user_id,
           email_message_id |-> email.message_id,
           email_subject |-> TruncateChars(email.subject, SubjectLimit),
           email_date |-> email.date, processing_status |-> "success",
           amazon_order_id |-> <<>>,
           error_message |-> TruncateChars(error, ErrorLimit),
           processed_at |-> now]}

\* mutant: failures are not logged
_log_email_processing_skip_failed(s, email, status, order_id, error, user_id, now) ==
    IF status = "failed" \/ LogRowsFor(s.log, email.message_id) # {} THEN s.log
    ELSE s.log \cup
         {[id |-> NextId(s.log), user_id |-> user_id,
           email_message_id |-> email.message_id,
           email_subject |-> TruncateChars(email.subject, SubjectLimit),
           email_date |-> email.date, processing_status |-> status,
           amazon_order_id |->
               IF order_id # None /\ OrderByNumber(s.orders, order_id) # <<>>
               THEN <<OrderByNumber(s.orders, order_id)[1].id>> ELSE <<>>,
           error_message |-> TruncateChars(error, ErrorLimit),
           processed_at |-> now]}

\* mutant: the row references the first order of the table instead of the
\* order looked up by its number
_log_email_processing_first_order(s, email, status, order_id, error, user_id, now) ==
    LET ids == {o.id : o \in s.orders}
        row == [id |-> NextId(s.log),
                user_id |-> user_id,
                email_message_id |-> email.message_id,
                email_subject |-> TruncateChars(email.subject, SubjectLimit),
                email_date |-> email.date,
                processing_status |-> status,
                amazon_order_id |->
                    IF order_id # None /\ ids # {}
                    THEN <<CHOOSE i \in ids : \A j \in ids : i <= j>> ELSE <<>>,
                error_message |-> TruncateChars(error, ErrorLimit),
                processed_at |-> now]
    IN  IF LogRowsFor(s.log, email.message_id) # {} THEN s.log
        ELSE s.log \cup {row}

\* the table email_processing_log after the INSERT; a row that violates the
\* unique constraint on email_message_id is refused and the error swallowed
_log_email_processing(s, email, status, order_id, error, user_id, now) ==
    LET order == IF order_id # None THEN OrderByNumber(s.orders, order_id) ELSE <<>>
        row == [id |-> NextId(s.log),
                user_id |-> user_id,
                email_message_id |-> email.message_id,
                email_subject |-> TruncateChars(email.subject, SubjectLimit),
                email_date |-> email.date,
                processing_status |-> status,
                amazon_order_id |-> IF order # <<>> THEN <<order[1].id>> ELSE <<>>,
                error_message |-> TruncateChars(error, ErrorLimit),
                processed_at |-> now]
    IN  IF LogRowsFor(s.log, email.message_id) # {} THEN s.log
        ELSE s.log \cup {row}

NewStats ==
    [emails_processed |-> 0, orders_created |-> 0, orders_updated |-> 0,
     orders_skipped |-> 0, errors |-> <<>>]

\* sync_orders has returned its stats / no run is in progress
Returned == pc \in {"Idle", "Completed", "Aborted"}

\* the latest call raised to its caller
Raised == pc = "Raised"

AtRest == Returned \/ Raised

\* the token file: whether it exists, and creds.expired, creds.refresh_token
\* and whether creds.refresh() succeeds for the pickled credentials
TokenFiles ==
    [exists : BOOLEAN, expired : BOOLEAN, refresh_token : BOOLEAN,
     refresh_ok : BOOLEAN]

\* the exception _load_credentials raises, or "valid" / "expired" for the
\* state of the credentials it returns
_load_credentials(token_file) ==
    IF ~token_file.exists THEN "FileNotFoundError"
    ELSE IF token_file.expired /\ token_file.refresh_token
    THEN IF token_file.refresh_ok THEN "valid" ELSE "RefreshError"
    ELSE IF token_file.expired THEN "expired"
    ELSE "valid"

\* the parser's result for every email of the source at every time
ParsedAt == [e \in Emails, now \in 0..MaxRuns |->
                parse_email(e.body_html, e.body_text, now)]

\* EmailSyncService(user_id, token_file) raises: no run is started
InitRaises ==
    /\ AtRest
    /\ runs < MaxRuns
    /\ runs' = runs + 1
    /\ \E token_file \in TokenFiles :
          /\ _load_credentials(token_file) \in {"FileNotFoundError", "RefreshError"}
          /\ creds' = _load_credentials(token_file)
    /\ pc' = "Raised"
    /\ stats' = NewStats
    /\ yielded' = <<>>
    /\ prevYielded' = lastCommitted
    /\ startDb' = db
    /\ before' = sess
    /\ beforeStats' = NewStats
    /\ calls' = <<>>
    /\ outcome' = "none"
    /\ UNCHANGED <<db, sess, user, parser, lastCommitted, ext, pulled>>

\* EmailSyncService(user_id, token_file) and sync_orders up to the search call
StartSync ==
    /\ AtRest
    /\ \E token_file \in TokenFiles :
          /\ _load_credentials(token_file) \in {"valid", "expired"}
          /\ creds' = _load_credentials(token_file)
    /\ runs < MaxRuns
    /\ runs' = runs + 1
    /\ pc' = "Fetching"
    /\ stats' = NewStats
    /\ yielded' = <<>>
    /\ prevYielded' = lastCommitted
    /\ startDb' = db
    /\ before' = sess
    /\ beforeStats' = NewStats
    /\ calls' = <<>>
    /\ outcome' = "none"
    /\ UNCHANGED <<db, sess, user, parser, lastCommitted, ext, pulled>>

\* messages().list().execute() returns
SearchReturns ==
    /\ pc = "Fetching"
    /\ creds = "valid"
    /\ pc' = "PerMessage"
    /\ UNCHANGED <<db, sess, stats, user, parser, yielded, lastCommitted, prevYielded,
                   startDb, before, beforeStats, calls, outcome, runs, ext, pulled,
                   creds>>

\* messages().list().execute() raises (the request fails, or the expired
\* credentials cannot be refreshed): the outer handler of sync_orders
SearchFails ==
    /\ pc = "Fetching"
    /\ pc' = "Aborted"
    /\ stats' = [stats EXCEPT !.errors =
                    Append(@, <<"Sync", "failed:",
                                IF creds = "expired" THEN "RefreshError" ELSE "HttpError">>)]
    /\ sess' = db
    /\ UNCHANGED <<db, user, parser, yielded, lastCommitted, prevYielded, startDb,
                   before, beforeStats, calls, outcome, runs, ext, pulled, creds>>

\* messages().get() or _parse_message raises inside the generator: the
\* message is not yielded and the generator goes on to the next one
SkipMessage(msg) ==
    /\ pc = "PerMessage"
    /\ pulled < MaxPulled
    /\ Unfetchable(msg)
    /\ pulled' = pulled + 1
    /\ UNCHANGED <<db, sess, pc, stats, user, parser, yielded, lastCommitted,
                   prevYielded, startDb, before, beforeStats, calls, outcome, runs,
                   ext, creds>>

\* one iteration of the loop over the emails of the source; insert_fails:
\* the INSERT of _log_email_processing raises and the error is swallowed
ProcessMessage(email, insert_fails) ==
    LET counted == [stats EXCEPT !.emails_processed = @ + 1]
        Log(s, status, order_id, error) ==
            IF insert_fails THEN s.log
            ELSE _log_email_processing(s, email, status, order_id, error, user, runs)
        parsed_order == ParsedAt[email, runs]
        r == _create_or_update_order(sess.orders, parsed_order[1], email, user)
        reconciled == [sess EXCEPT !.orders = r.orders]
    IN  /\ pc = "PerMessage"
        /\ pulled < MaxPulled
        /\ pulled' = pulled + 1
        /\ Len(yielded) < MaxResults
        /\ yielded' = Append(yielded, email)
        /\ before' = sess
        /\ beforeStats' = stats
        /\ IF _is_email_processed(sess.log, email.message_id)
           THEN /\ stats' = [counted EXCEPT !.orders_skipped = @ + 1]
                /\ sess' = sess
                /\ calls' = <<"_is_email_processed">>
                /\ outcome' = "skipped"
           ELSE IF parsed_order = <<>>
           THEN /\ stats' = [counted EXCEPT
                              !.errors = Append(@, <<"Parse", "failed:">> \o email.subject)]
                /\ sess' = [sess EXCEPT !.log =
                              Log(sess, "failed", None, <<"Parse", "failed">>)]
                /\ calls' = <<"_is_email_processed", "parse_email",
                              "_log_email_processing">>
                /\ outcome' = "parse_failed"
           ELSE IF r.raised # <<>>
           THEN /\ stats' = [counted EXCEPT !.errors = Append(@, r.raised)]
                /\ sess' = [reconciled EXCEPT !.log =
                              Log(reconciled, "failed", None, r.raised)]
                /\ calls' = <<"_is_email_processed", "parse_email",
                              "_create_or_update_order", "_log_email_processing">>
                /\ outcome' = "raised"
           ELSE /\ stats' = IF r.created
                            THEN [counted EXCEPT !.orders_created = @ + 1]
                            ELSE [counted EXCEPT !.orders_updated = @ + 1]
                /\ sess' = [reconciled EXCEPT !.log =
                              Log(reconciled, "success", parsed_order[1].order_id, <<>>)]
                /\ calls' = <<"_is_email_processed", "parse_email",
                              "_create_or_update_order", "_log_email_processing">>
                /\ outcome' = IF r.created THEN "created" ELSE "updated"
        /\ UNCHANGED <<db, pc, user, parser, lastCommitted, prevYielded, startDb, runs,
                       ext, creds>>

\* mutant: an email that was already processed is not counted as skipped
ProcessEmail_uncounted_skip(email) ==
    IF _is_email_processed(sess.log, email.message_id)
    THEN /\ pc = "PerMessage"
         /\ pulled < MaxPulled
         /\ pulled' = pulled + 1
         /\ yielded' = Append(yielded, email)
         /\ before' = sess
         /\ beforeStats' = stats
         /\ stats' = [stats EXCEPT !.emails_processed = @ + 1]
         /\ calls' = <<"_is_email_processed">>
         /\ outcome' = "skipped"
         /\ UNCHANGED <<db, sess, pc, user, parser, lastCommitted, prevYielded,
                        startDb, runs, ext, creds>>
    ELSE ProcessMessage(email, FALSE)

\* an iteration in which every statement of the database succeeds
ProcessEmail(email) == ProcessMessage(email, FALSE)

\* an iteration in which the database refuses the INSERT into the log
ProcessEmailInsertFails(email) == ProcessMessage(email, TRUE)

\* mutant: the commit persists the processing log but not the order changes
CommitRun_log_only ==
    /\ pc = "PerMessage"
    /\ pc' = "Completed"
    /\ db' = [db EXCEPT !.log = sess.log]
    /\ lastCommitted' = yielded
    /\ UNCHANGED <<sess, stats, user, parser, yielded, prevYielded, startDb, before,
                   beforeStats, calls, outcome, runs, ext, pulled, creds>>

\* mutant: a run that recorded an error rolls back instead of committing
CommitRun_rollback_on_errors ==
    /\ pc = "PerMessage"
    /\ pc' = "Completed"
    /\ db' = IF stats.errors # <<>> THEN db ELSE sess
    /\ sess' = db'
    /\ lastCommitted' = yielded
    /\ UNCHANGED <<stats, user, parser, yielded, prevYielded, startDb, before,
                   beforeStats, calls, outcome, runs, ext, pulled, creds>>

\* mutant: the commit keeps only the log rows written by this run
CommitRun_truncate_log ==
    /\ pc = "PerMessage"
    /\ pc' = "Completed"
    /\ db' = [sess EXCEPT !.log = sess.log \ startDb.log]
    /\ lastCommitted' = yielded
    /\ UNCHANGED <<sess, stats, user, parser, yielded, prevYielded, startDb, before,
                   beforeStats, calls, outcome, runs, ext, pulled, creds>>

\* the source is exhausted: db.session.commit() and return stats
CommitRun ==
    /\ pc = "PerMessage"
    /\ pc' = "Completed"
    /\ db' = sess
    /\ lastCommitted' = yielded
    /\ UNCHANGED <<sess, stats, user, parser, yielded, prevYielded, startDb, before,
                   beforeStats, calls, outcome, runs, ext, pulled, creds>>

----------------------------------------------------------------------------
(* The other writers of amazon_orders *)

CsvOrders ==
    { [order_id |-> Order1, currency |-> "USD", shipment_status |-> "Shipped",
       items |-> << [item_name |-> <<"Wireless", "Mouse">>, quantity |-> 2,
                     unit_price |-> 2100, total_price |-> 4200,
                     asin |-> "B00TEST001"] >>],
      [order_id |-> Order2, currency |-> "USD", shipment_status |-> "Delivered",
       items |-> << [item_name |-> <<"Pen">>, quantity |-> 1,
                     unit_price |-> 1700, total_price |-> 1700,
                     asin |-> None] >>] }

\* another request is served: what the last run returned is no longer held
Forget ==
    /\ pc' = "Idle"
    /\ stats' = NewStats
    /\ yielded' = <<>>
    /\ lastCommitted' = <<>>
    /\ prevYielded' = <<>>
    /\ startDb' = EmptyDb
    /\ before' = EmptyDb
    /\ beforeStats' = NewStats
    /\ calls' = <<>>
    /\ outcome' = "none"
    /\ ext < MaxExternal
    /\ ext' = ext + 1
    /\ creds' = "none"
    /\ UNCHANGED <<user, parser, runs, pulled>>

RECURSIVE SumTotal(_)
SumTotal(items) ==
    IF items = <<>> THEN 0 ELSE Head(items).total_price + SumTotal(Tail(items))

\* import_amazon_csv of a file with one order
ImportCsv(order_data) ==
    LET order == [id |-> NextId(db.orders),
                  order_number |-> order_data.order_id,
                  order_date |-> Parsed(<<2025, 3, 3>>),
                  total_amount |-> SumTotal(order_data.items),
                  currency |-> order_data.currency,
                  shipment_status |-> order_data.shipment_status,
                  items |-> order_data.items]
    IN  /\ AtRest
        /\ OrderByNumber(db.orders, order_data.order_id) = <<>>
        /\ db' = [db EXCEPT !.orders = @ \cup {order}]
        /\ sess' = db'
        /\ Forget

\* POST /amazon/orders/<id>/delete
amazon_order_delete(order_id) ==
    /\ AtRest
    /\ \E o \in db.orders : o.id = order_id
    /\ db' = [db EXCEPT !.orders = {o \in @ : o.id # order_id}]
    /\ sess' = db'
    /\ Forget

----------------------------------------------------------------------------

\* parse_email has not been called directly
NotCalled ==
    [email_html |-> NoBody, email_text |-> NoBody, now |-> 0, result |-> <<>>,
     called |-> FALSE, earlier |-> <<>>]

\* the state after construction, for a user whose mailbox is synced
Idle ==
    /\ db = EmptyDb
    /\ sess = EmptyDb
    /\ pc = "Idle"
    /\ stats = NewStats
    /\ user \in Users
    /\ yielded = <<>>
    /\ lastCommitted = <<>>
    /\ prevYielded = <<>>
    /\ startDb = EmptyDb
    /\ before = EmptyDb
    /\ beforeStats = NewStats
    /\ calls = <<>>
    /\ outcome = "none"
    /\ runs = 0
    /\ ext = 0
    /\ pulled = 0
    /\ creds = "none"

Init == Idle /\ parser = NotCalled

Next ==
    \/ InitRaises
    \/ StartSync
    \/ SearchReturns
    \/ SearchFails
    \/ \E msg \in Mailbox : SkipMessage(msg)
    \/ \E e \in Emails : ProcessEmail(e)
    \/ CommitRun
    \/ \E o \in CsvOrders : ImportCsv(o)
    \/ \E i \in 1..Cardinality(db.orders) + 1 : amazon_order_delete(i)

Spec == Init /\ [][Next]_vars

\* the same program on a database that may refuse an INSERT into the log
NextFault ==
    \/ Next
    \/ \E e \in Emails : ProcessEmailInsertFails(e)

SpecFault == Init /\ [][NextFault]_vars

----------------------------------------------------------------------------
(* The extractor on its own: parse_email applied to bodies put together from
   the pieces the extractor looks for *)

\* calls of parse_email on one pair of bodies
MaxCalls == 2

IdPieces ==
    { <<>>, << P(<<"Order", "#", Order1>>) >>, << P(<<"Order", Order2>>) >>,
      << P(<<"Confirmation", Order1>>) >> }

DatePieces ==
    { <<>>, << P(<<"Order", "Date", "March 3, 2025">>) >>,
      << P(<<"Order", "Date", "Mar 3, 2025">>) >>,
      << P(<<"Order", "Date", "Smarch 3, 2025">>) >> }

ItemPieces ==
    { <<>>,
      << Table(<< << <<"Product">>, <<"Price">> >>,
                  << <<"Wireless", "Mouse">>, <<"Qty", "2">>, <<"$19.99">> >> >>) >>,
      << Div(<<"USB", "Cable", "$17.00">>) >>,
      << Table(<< << <<"Product">>, <<"Price">> >>,
                  << <<"Wireless", "Mouse">>, <<"Qty", "2">>, <<"$19.99">> >> >>),
         Div(<<"USB", "Cable", "$17.00">>) >>,
      << P(<<"Wireless", "Mouse">>), P(<<"$19.99">>) >>,
      << Table(<< << <<"Item">>, <<"Amount">> >>,
                  << <<"Wireless", "Mouse">>, <<"Qty", "0">>, <<"$19.99">> >> >>) >> }

TotalPieces ==
    { <<>>, << P(<<"Order", "Total", "$39.98">>) >>, << P(<<"Total", "$42.00">>) >> }

StatusPieces ==
    { <<>>, << P(<<"Your", "package", "was", "delivered">>) >>,
      << P(<<"Your", "package", "was", "shipped">>) >>,
      << P(<<"We", "are", "preparing", "it">>) >>,
      << P(<<"It", "was", "dispatched">>) >>,
      << P(<<"It", "was", "shipped">>), P(<<"and", "delivered">>) >>,
      << P(<<"We", "are", "preparing", "it">>), P(<<"It", "was", "shipped">>) >> }

HtmlBodies ==
    {NoBody, Html(<<>>)} \cup
    { Html(a \o b \o c \o d \o e) :
        a \in IdPieces, b \in DatePieces, c \in ItemPieces, d \in TotalPieces,
        e \in StatusPieces }

TextBodies ==
    {NoBody, Text(<<>>)} \cup
    { Text(a \o b \o c \o d) :
        a \in { <<>>, << <<"Order", Order2>> >>, << <<"Ref", Order2>> >> },
        b \in { <<>>, << <<"Order", "Date", "March 3, 2025">> >>,
                << <<"Order", "Date", "Mar 3, 2025">> >> },
        c \in { <<>>, << <<"Pen", "Qty", "2", "$17.00">> >> },
        d \in { <<>>, << <<"Total", "$42.00">> >>, << <<"It", "was", "shipped">> >> } }

\* the pairs (email_html, email_text) parse_email is called with
ParserInputs ==
    { [email_html |-> h, email_text |-> NoBody] : h \in HtmlBodies } \cup
    { [email_html |-> h, email_text |-> t] :
        h \in {NoBody, Html(<<>>), Html(PromoHtml), Html(ConfirmHtml)},
        t \in TextBodies }

InitParser ==
    /\ Idle
    /\ \E in \in ParserInputs :
          parser = [email_html |-> in.email_html, email_text |-> in.email_text,
                    now |-> 0, result |-> <<>>, called |-> FALSE, earlier |-> <<>>]

\* parser.parse_email(email_html, email_text) at the next instant
CallParseEmail ==
    /\ parser.now < MaxCalls
    /\ parser' = [parser EXCEPT
                    !.now = @ + 1,
                    !.result = parse_email(parser.email_html, parser.email_text,
                                           parser.now + 1),
                    !.called = TRUE,
                    !.earlier = IF parser.called THEN <<parser.result>> ELSE <<>>]
    /\ UNCHANGED <<db, sess, pc, stats, user, yielded, lastCommitted, prevYielded,
                   startDb, before, beforeStats, calls, outcome, runs, ext, pulled,
                   creds>>

NextParser == CallParseEmail

SpecParser == InitParser /\ [][NextParser]_vars

\* sync_now: the headline the command echoes for the latest call
sync_now ==
    IF creds = "FileNotFoundError" THEN <<"Token", "file", "not", "found:">>
    ELSE IF Raised THEN <<"Sync", "failed:">>
    ELSE IF pc \in {"Completed", "Aborted"} THEN <<"Sync", "completed!">>
    ELSE <<>>

----------------------------------------------------------------------------
(* Vocabulary of the properties *)

\* the loop of sync_orders has handled at least one email of this run
Handled == pc \in {"PerMessage", "Completed"} /\ yielded # <<>>

\* the email of the latest loop iteration
Current == Last(yielded)

\* what the extractor returns for the email of the latest iteration
Extracted == ParsedAt[Current, runs]

Logged(log, message_id) == \E l \in log : l.email_message_id = message_id

RowsOf(log, message_id) == {l \in log : l.email_message_id = message_id}

OrdersOf(orders, order_number) == {o \in orders : o.order_number = order_number}

\* the latest iteration met an email whose Message-ID the log did not hold
Fresh == Handled /\ ~Logged(before.log, Current.message_id)

----------------------------------------------------------------------------
(* C1: a run that commits after a committed run that was given the same
   emails creates nothing, updates nothing, counts every email as skipped and
   leaves the orders and the processing log as they were. *)
C1_Idempotent ==
    (pc = "Completed" /\ yielded = prevYielded) =>
        /\ stats.orders_created = 0
        /\ stats.orders_updated = 0
        /\ stats.orders_skipped = Len(yielded)
        /\ db = startDb

C1_Witness ==
    /\ pc = "Completed"
    /\ yielded = prevYielded
    /\ yielded # <<>>
    /\ stats.orders_skipped = Len(yielded)
    /\ \E l \in db.log : l.processing_status = "success"

(* C2: the store never holds two orders with one order number, and after a
   message was extracted and reconciled with success in this run the store
   holds exactly one order with the extracted number. *)
C2_OneOrderPerIdentifier ==
    /\ \A t \in {db.orders, sess.orders} :
          \A o, q \in t : o.order_number = q.order_number => o = q
    /\ \A i \in 1..Len(yielded) :
          LET rows == RowsOf(sess.log, yielded[i].message_id) \ startDb.log
              parsed == ParsedAt[yielded[i], runs]
          IN  (pc \in {"PerMessage", "Completed"}
                 /\ \E l \in rows : l.processing_status = "success")
              => /\ parsed # <<>>
                 /\ Cardinality(OrdersOf(sess.orders, parsed[1].order_id)) = 1

C2_Witness ==
    /\ pc = "Completed"
    /\ Len(yielded) = 2
    /\ yielded[1] # yielded[2]
    /\ ParsedAt[yielded[1], runs] # <<>>
    /\ ParsedAt[yielded[2], runs] # <<>>
    /\ ParsedAt[yielded[1], runs][1].order_id = ParsedAt[yielded[2], runs][1].order_id
    /\ \A i \in 1..2 : \E l \in db.log \ startDb.log :
          l.email_message_id = yielded[i].message_id /\ l.processing_status = "success"
    /\ Cardinality(OrdersOf(db.orders, ParsedAt[yielded[1], runs][1].order_id)) = 1

(* C3: an iteration of the loop leaves the number, total amount, date,
   currency and items of every order that existed before it as they were;
   only the shipment status may differ. *)
C3_FirstWriteWins ==
    Handled =>
        \A o \in before.orders : \E q \in sess.orders :
            /\ q.id = o.id
            /\ q.order_number = o.order_number
            /\ q.total_amount = o.total_amount
            /\ q.order_date = o.order_date
            /\ q.currency = o.currency
            /\ q.items = o.items

C3_Witness ==
    /\ Handled
    /\ Fresh
    /\ Extracted # <<>>
    /\ \E o \in before.orders : \E q \in sess.orders :
          /\ o.order_number = Extracted[1].order_id
          /\ q.id = o.id
          /\ q.shipment_status # o.shipment_status
          /\ Extracted[1].total_amount # o.total_amount
          /\ q.total_amount = o.total_amount

(* C4: an iteration for a message whose Message-ID the log did not hold adds
   exactly one row for it, with status 'success' when the extraction returned
   an order and the store holds that order afterwards, and 'failed'
   otherwise; when the run has committed every message it pulled has exactly
   one row. *)
C4_AuditComplete ==
    /\ Fresh =>
          /\ Cardinality(RowsOf(sess.log, Current.message_id)) = 1
          /\ \E l \in sess.log \ before.log : sess.log = before.log \cup {l}
          /\ \A l \in RowsOf(sess.log, Current.message_id) :
                /\ l.processing_status \in {"success", "failed"}
                /\ l.processing_status = "success" <=>
                      /\ Extracted # <<>>
                      /\ OrdersOf(sess.orders, Extracted[1].order_id) # {}
    /\ pc = "Completed" =>
          \A i \in 1..Len(yielded) :
              Cardinality(RowsOf(db.log, yielded[i].message_id)) = 1

C4_Witness ==
    /\ pc = "Completed"
    /\ Len(yielded) = 2
    /\ \E l \in db.log \ startDb.log :
          l.email_message_id = yielded[1].message_id /\ l.processing_status = "success"
    /\ \E l \in db.log \ startDb.log :
          l.email_message_id = yielded[2].message_id /\ l.processing_status = "failed"

(* C5: the processing log, committed or pending, never holds two rows with
   one Message-ID. *)
C5_LedgerUnique ==
    \A t \in {db.log, sess.log} :
        \A l, m \in t : l.email_message_id = m.email_message_id => l = m

C5_Witness ==
    /\ pc = "PerMessage"
    /\ Len(yielded) = 2
    /\ yielded[1].message_id = yielded[2].message_id
    /\ Cardinality(RowsOf(sess.log, yielded[1].message_id)) = 1
    /\ ~Logged(startDb.log, yielded[1].message_id)

(* C6: an iteration for a message whose Message-ID the log already holds
   counts it as skipped and nothing else, does not call the extractor and
   leaves orders, items and log rows as they were. *)
C6_DedupNoEffect ==
    (Handled /\ Logged(before.log, Current.message_id)) =>
        /\ stats = [beforeStats EXCEPT !.emails_processed = @ + 1,
                                       !.orders_skipped = @ + 1]
        /\ "parse_email" \notin Range(calls)
        /\ sess = before

C6_Witness ==
    /\ Handled
    /\ Logged(before.log, Current.message_id)
    /\ ~Logged(startDb.log, Current.message_id)
    /\ stats.orders_skipped = 1
    /\ before.orders # {}

(* C7: a message whose log row was committed before the run started is
   neither extracted nor reconciled by the run, and the run creates no order
   for it, also when the order its row refers to has been deleted. *)
C7_AuditFence ==
    (Handled /\ Logged(startDb.log, Current.message_id)) =>
        /\ "parse_email" \notin Range(calls)
        /\ "_create_or_update_order" \notin Range(calls)
        /\ sess.orders = before.orders
        /\ sess.log = before.log

C7_Witness ==
    /\ Handled
    /\ Extracted # <<>>
    /\ OrdersOf(sess.orders, Extracted[1].order_id) = {}
    /\ \E l \in startDb.log :
          /\ l.email_message_id = Current.message_id
          /\ l.processing_status = "success"
          /\ l.amazon_order_id # <<>>
          /\ \A o \in sess.orders : o.id # l.amazon_order_id[1]
    /\ stats.orders_skipped = 1

(* C8: an iteration for a new message whose extraction returned an order with
   a number the store did not hold adds one order with the extracted number,
   date, total, currency and status and one item per extracted item, and
   counts it in orders_created. *)
C8_ReconcileCreates ==
    (Fresh /\ Extracted # <<>>
           /\ OrdersOf(before.orders, Extracted[1].order_id) = {}) =>
        /\ stats.orders_created = beforeStats.orders_created + 1
        /\ \E o \in sess.orders \ before.orders :
              /\ sess.orders = before.orders \cup {o}
              /\ o.order_number = Extracted[1].order_id
              /\ o.order_date = Extracted[1].order_date
              /\ o.total_amount = Extracted[1].total_amount
              /\ o.currency = Extracted[1].currency
              /\ o.shipment_status \in {Extracted[1].shipment_status, "Pending"}
              /\ Len(o.items) = Len(Extracted[1].items)

(* C9: an iteration for a new message whose extraction returned the number of
   a stored order adds no order, changes the stored status only when the
   extracted status differs from it, then to the extracted status, and counts
   the message in orders_updated whether or not the status changed. *)
C9_ReconcileFound ==
    (Fresh /\ Extracted # <<>>
           /\ OrdersOf(before.orders, Extracted[1].order_id) # {}) =>
        /\ {o.id : o \in sess.orders} = {o.id : o \in before.orders}
        /\ \A o \in before.orders : \E q \in sess.orders :
              /\ q.id = o.id
              /\ o.order_number # Extracted[1].order_id => q = o
              /\ q.shipment_status # o.shipment_status =>
                    /\ Extracted[1].shipment_status # o.shipment_status
                    /\ q.shipment_status = Extracted[1].shipment_status
        /\ stats = [beforeStats EXCEPT !.emails_processed = @ + 1,
                                       !.orders_updated = @ + 1]

C9_Witness ==
    /\ Fresh
    /\ Extracted # <<>>
    /\ stats.orders_updated = 2
    /\ beforeStats.orders_updated = 1
    /\ Cardinality(sess.orders) = 1
    /\ startDb.orders = before.orders
    /\ \E o \in before.orders : \E q \in sess.orders :
          /\ q.id = o.id
          /\ q.shipment_status # o.shipment_status
          /\ q.shipment_status = Extracted[1].shipment_status

(* C10: an iteration for a new message for which the extractor returns no
   order adds one entry to errors, writes one log row with status 'failed'
   and an error detail, leaves the orders as they were, and the run goes on. *)
C10_ExtractionFailureLocal ==
    (yielded # <<>> /\ ~Logged(before.log, Current.message_id)
                    /\ Extracted = <<>>) =>
        /\ pc \in {"PerMessage", "Completed"}
        /\ stats = [beforeStats EXCEPT
                      !.emails_processed = @ + 1,
                      !.errors = Append(@, <<"Parse", "failed:">> \o Current.subject)]
        /\ sess.orders = before.orders
        /\ Cardinality(RowsOf(sess.log, Current.message_id)) = 1
        /\ \A l \in RowsOf(sess.log, Current.message_id) :
              /\ l.processing_status = "failed"
              /\ l.error_message # <<>>
              /\ l.amazon_order_id = <<>>

C10_Witness ==
    /\ pc = "PerMessage"
    /\ Len(yielded) = 2
    /\ ParsedAt[yielded[1], runs] = <<>>
    /\ \E l \in sess.log \ startDb.log :
          l.email_message_id = yielded[1].message_id /\ l.processing_status = "failed"
    /\ \E l \in sess.log \ startDb.log :
          l.email_message_id = yielded[2].message_id /\ l.processing_status = "success"
    /\ Len(stats.errors) = 1
    /\ stats.orders_updated = 1

----------------------------------------------------------------------------
(* C11: run atomicity.  While a run is in progress the committed database is
   what it was when the run started; when the run completes, every order
   write and log row of the run is committed together; when the run aborts
   on a fetch-level exception the committed database is what it was when the
   run started and the session holds no pending write. *)
C11_RunAtomic ==
    /\ pc \in {"Fetching", "PerMessage"} => db = startDb
    /\ pc = "Completed" => db = sess
    /\ pc = "Aborted" => db = startDb /\ sess = db

C11_Witness ==
    /\ pc = "Completed"
    /\ startDb.log # {}
    /\ startDb.log \subseteq db.log
    /\ Cardinality(db.log \ startDb.log) = 2
    /\ \E o \in startDb.orders : \E p \in db.orders :
          p.id = o.id /\ p.shipment_status # o.shipment_status

----------------------------------------------------------------------------
(* C12: read-your-writes within a run.  When an earlier message of the run
   was reconciled for an order number the store did not hold when the run
   started, the reconciliation of a later new message of the same run with
   that order number finds the order: it takes the found branch, and the
   store holds exactly one order with that number. *)
C12_ReadYourWrites ==
    \A i \in 1..Len(yielded) - 1 :
        (/\ Fresh
         /\ Extracted # <<>>
         /\ ParsedAt[yielded[i], runs] # <<>>
         /\ ParsedAt[yielded[i], runs][1].order_id = Extracted[1].order_id
         /\ \E l \in RowsOf(before.log, yielded[i].message_id) : l.processed_at = runs
         /\ OrdersOf(startDb.orders, Extracted[1].order_id) = {})
        => /\ outcome = "updated"
           /\ Cardinality(OrdersOf(sess.orders, Extracted[1].order_id)) = 1

----------------------------------------------------------------------------
(* C13: per-message problems never end the run.  In a run in which the
   handling of some message recorded an error (extraction returned nothing,
   reconciliation raised, also when the database refused a row of the log),
   sync_orders has not raised and has not aborted, every message the source
   yielded was counted as processed and the loop goes on or has committed;
   the commit persists all the work of the session, and the stats record
   returned has its five entries. *)
C13_PerMessageProblemsLocal ==
    /\ [](yielded # <<>> /\ stats.errors # <<>> =>
            /\ pc \in {"PerMessage", "Completed"}
            /\ stats.emails_processed = Len(yielded)
            /\ DOMAIN stats = {"emails_processed", "orders_created", "orders_updated",
                               "orders_skipped", "errors"}
            /\ pc = "Completed" => Returned /\ db = sess)
    /\ [][pc = "PerMessage" /\ pc' # "PerMessage" =>
            pc' = "Completed" /\ db' = sess /\ stats' = stats]_vars

C13_Witness ==
    /\ pc = "Completed"
    /\ Len(yielded) = 2
    /\ Len(stats.errors) = 1
    /\ ParsedAt[yielded[1], runs] # <<>>
    /\ \E l \in db.log \ startDb.log :
          /\ l.email_message_id = yielded[1].message_id
          /\ l.processing_status = "failed"
    /\ \E l \in db.log \ startDb.log :
          /\ l.email_message_id = yielded[2].message_id
          /\ l.processing_status = "success"
    /\ \E o \in startDb.orders : \E p \in db.orders :
          p.id = o.id /\ p.shipment_status # o.shipment_status

----------------------------------------------------------------------------
(* C14: per-message write consistency.  After the iteration for a new
   message, the session holds the order write of the message (the message
   was reconciled as created or updated) exactly when it holds a log row
   with status 'success' for the message, also when the database refused
   the order write or the log row; a completed run has persisted both or
   neither. *)
C14_WriteConsistency ==
    (Handled /\ Fresh) =>
        /\ outcome \in {"created", "updated"} <=>
              \E l \in RowsOf(sess.log, Current.message_id) :
                  l.processing_status = "success"
        /\ sess.orders # before.orders =>
              \E l \in RowsOf(sess.log, Current.message_id) :
                  l.processing_status = "success"
        /\ pc = "Completed" => db = sess

----------------------------------------------------------------------------
(* C15: a fetch failure is a run-level failure.  When the search call of the
   provider has failed, the run has handled no message, the failure has
   reached the caller of sync_orders as an exception, and the command does
   not report a completed sync. *)
C15_FetchFailureSurfaced ==
    (stats.errors # <<>> /\ SubSeq(Last(stats.errors), 1, 2) = <<"Sync", "failed:">>) =>
        /\ stats.emails_processed = 0
        /\ yielded = <<>>
        /\ Raised
        /\ sync_now # <<"Sync", "completed!">>

----------------------------------------------------------------------------
(* C16: an authentication failure aborts before any processing.  When the
   token file is missing, or the credentials are expired and cannot be
   refreshed, or the refresh fails, then once the call is over it has raised
   to its caller, no message was pulled and neither an order nor a log row
   was written. *)
C16_AuthFailureAborts ==
    (creds \in {"FileNotFoundError", "RefreshError", "expired"} /\ pc # "Fetching") =>
        /\ Raised
        /\ yielded = <<>>
        /\ stats.emails_processed = 0
        /\ db = startDb
        /\ sess = db

----------------------------------------------------------------------------
(* C17: a decode failure skips the message.  A message of the mailbox that
   cannot be fetched or normalized, or whose body cannot be decoded, is never
   among the emails yielded to the loop of sync_orders; and a step in which
   the source passes over a message leaves the stats and the session as they
   were and the loop running. *)
C17_DecodeFailureSkips ==
    /\ [](\A i \in 1..Len(yielded) : \A msg \in Mailbox :
            msg.id = yielded[i].id => ~Unfetchable(msg) /\ ~HasBadData(msg.payload))
    /\ [][(pulled' = pulled + 1 /\ yielded' = yielded) =>
            pc = "PerMessage" /\ pc' = pc /\ stats' = stats /\ sess' = sess]_vars

----------------------------------------------------------------------------
(* C18: monotonic stores.  No step of the pipeline (a step that is not a
   request to the importer or to the delete route) removes a committed order
   or changes its number or items, and none removes or changes a committed
   log row: the committed orders and log rows only grow, and a log row keeps
   its status, order reference and error detail. *)
C18_MonotonicStores ==
    [][ext' = ext =>
          /\ \A o \in db.orders : \E p \in db'.orders :
                /\ p.id = o.id
                /\ p.order_number = o.order_number
                /\ p.items = o.items
          /\ db.log \subseteq db'.log
          /\ sess.log \subseteq sess'.log \/ sess' = db]_vars

C18_Witness ==
    /\ pc = "Completed"
    /\ runs = 2
    /\ startDb.orders # {}
    /\ startDb.log # {}
    /\ startDb.log \subseteq db.log
    /\ db.log # startDb.log
    /\ \E l \in startDb.log : l.processing_status = "success"
    /\ \E l \in startDb.log : l.processing_status = "failed"

----------------------------------------------------------------------------
(* Vocabulary of the properties of the extractor *)

\* the text of the body parse_email examines: the HTML body when it is not
\* empty, else the plain-text body
Examined ==
    IF Truthy(parser.email_html) THEN GetText(parser.email_html.doc)
    ELSE IF Truthy(parser.email_text) THEN Flatten(parser.email_text.doc)
    ELSE <<>>

StatusKeywords == {"delivered", "shipped", "dispatched", "preparing"}

----------------------------------------------------------------------------
(* C19: the order identifier is the only hard failure condition.  A call of
   parse_email returns an order exactly when the body it examines contains
   an order-identifier token; the order carries that kind of token as its
   order_id, and a field that cannot be recovered has its default: the
   processing time when the body has no date text, no items and total 0
   when it has no amount, Pending when it has no status keyword. *)
C19_OnlyHardFailure ==
    parser.called =>
        /\ parser.result # <<>> <=> Range(Examined) \cap OrderIdTokens # {}
        /\ parser.result # <<>> =>
              LET order == parser.result[1]
              IN  /\ order.order_id \in Range(Examined) \cap OrderIdTokens
                  /\ Range(Examined) \cap DateTokens = {} =>
                        order.order_date = Now(parser.now)
                  /\ Range(Examined) \cap AmountTokens = {} =>
                        order.items = <<>> /\ order.total_amount = 0
                  /\ Range(Examined) \cap StatusKeywords = {} =>
                        order.shipment_status = "Pending"

----------------------------------------------------------------------------
(* C20: extraction fallback ordering.  The items of an order parsed from an
   HTML body are the result of the first of the tabular, block and
   context-window strategies that yields at least one item; when the tabular
   strategy yields an item, the item list is exactly its result. *)
C20_FallbackOrdering ==
    (parser.called /\ Truthy(parser.email_html) /\ parser.result # <<>>) =>
        LET doc == parser.email_html.doc
            tabular == TableItems(doc)
            block == DivItems(doc, <<>>)
            window == _extract_items_from_full_text(GetLines(doc))
        IN  parser.result[1].items =
                IF tabular # <<>> THEN tabular
                ELSE IF block # <<>> THEN block
                ELSE window

----------------------------------------------------------------------------
(* C21: the extractor is deterministic.  Two calls of parse_email with the
   same pair of bodies, at two different times, return equal results: both
   fail, or both return the same order id, order date, items, total,
   currency and shipment status. *)
C21_Deterministic ==
    parser.earlier # <<>> => parser.earlier[1] = parser.result

----------------------------------------------------------------------------
(* C22: every order parse_email returns, from the HTML path or from the
   plain-text path, has a shipment status among Pending, Preparing, Shipped
   and Delivered, and the status is Pending when the examined body holds no
   status keyword. *)
C22_StatusEnumerated ==
    (parser.called /\ parser.result # <<>>) =>
        /\ parser.result[1].shipment_status \in
              {"Pending", "Preparing", "Shipped", "Delivered"}
        /\ Range(Examined) \cap StatusKeywords = {} =>
              parser.result[1].shipment_status = "Pending"

----------------------------------------------------------------------------
(* C23: body selection.  When the HTML body is present and not empty, the
   result of parse_email is the result of the HTML path alone, so an HTML
   body without an order identifier yields failure also when the plain-text
   body holds one; the plain-text path decides the result only when there is
   no HTML body or the HTML body is the empty string. *)
C23_BodySelection ==
    parser.called =>
        /\ Truthy(parser.email_html) =>
              /\ parser.result = _parse_html(parser.email_html.doc, parser.now)
              /\ OrderIdSearch(GetText(parser.email_html.doc)) = None =>
                    parser.result = <<>>
        /\ ~Truthy(parser.email_html) =>
              parser.result = IF Truthy(parser.email_text)
                              THEN _parse_text(parser.email_text.doc, parser.now)
                              ELSE <<>>

C23_Witness ==
    /\ parser.called
    /\ Truthy(parser.email_html)
    /\ OrderIdSearch(GetText(parser.email_html.doc)) = None
    /\ Truthy(parser.email_text)
    /\ OrderIdSearch(Flatten(parser.email_text.doc)) # None
    /\ parser.result = <<>>

----------------------------------------------------------------------------
(* C24: MIME decoding recovers bodies at any nesting depth.  For every
   message the source has normalized and yielded, body_html is set when some
   text/html part with data exists in the message, however deeply nested,
   and body_text is set when some text/plain part with data exists. *)
C24_BodiesAtAnyDepth ==
    \A i \in 1..Len(yielded) : \A msg \in Mailbox :
        msg.id = yielded[i].id =>
            /\ HasPartWithData(msg.payload, "text/html") => yielded[i].body_html.present
            /\ HasPartWithData(msg.payload, "text/plain") => yielded[i].body_text.present

----------------------------------------------------------------------------
(* C25: shipment status priority.  On the HTML path the status of the
   parsed order is Delivered when the text holds 'delivered', else Shipped
   when it holds 'shipped' or 'dispatched', else Preparing when it holds
   'preparing', else Pending. *)
C25_StatusPriority ==
    (parser.called /\ Truthy(parser.email_html) /\ parser.result # <<>>) =>
        LET words == Range(Examined)
            status == parser.result[1].shipment_status
        IN  /\ "delivered" \in words => status = "Delivered"
            /\ ("delivered" \notin words /\
                (words \cap {"shipped", "dispatched"} # {})) => status = "Shipped"
            /\ (words \cap {"delivered", "shipped", "dispatched"} = {} /\
                "preparing" \in words) => status = "Preparing"
            /\ words \cap StatusKeywords = {} => status = "Pending"

C25_Witness ==
    /\ parser.called
    /\ Truthy(parser.email_html)
    /\ parser.result # <<>>
    /\ {"delivered", "shipped"} \subseteq Range(Examined)
    /\ parser.result[1].shipment_status = "Delivered"

----------------------------------------------------------------------------
(* C26: every item of a parsed order, whichever strategy produced it, has a
   quantity of at least 1, and the quantity is 1 when the body holds no
   quantity label. *)
C26_QuantityPositive ==
    (parser.called /\ parser.result # <<>>) =>
        \A i \in 1..Len(parser.result[1].items) :
            /\ parser.result[1].items[i].quantity >= 1
            /\ "Qty" \notin Range(Examined) => parser.result[1].items[i].quantity = 1

----------------------------------------------------------------------------
(* C27: counter accounting.  In a run that was not aborted, emails_processed
   is the number of emails the source has yielded and equals orders_skipped
   + orders_created + orders_updated + the number of entries in errors; and
   the iteration for one email adds one to emails_processed and one to
   exactly one of the four. *)
C27_CounterAccounting ==
    /\ [](pc \in {"PerMessage", "Completed"} =>
            /\ stats.emails_processed = Len(yielded)
            /\ stats.emails_processed =
                  stats.orders_skipped + stats.orders_created
                      + stats.orders_updated + Len(stats.errors))
    /\ [][(pc = "PerMessage" /\ yielded' # yielded) =>
            /\ stats'.emails_processed = stats.emails_processed + 1
            /\ (stats'.orders_skipped - stats.orders_skipped)
                  + (stats'.orders_created - stats.orders_created)
                  + (stats'.orders_updated - stats.orders_updated)
                  + (Len(stats'.errors) - Len(stats.errors)) = 1
            /\ stats'.orders_skipped >= stats.orders_skipped
            /\ stats'.orders_created >= stats.orders_created
            /\ stats'.orders_updated >= stats.orders_updated
            /\ Len(stats'.errors) >= Len(stats.errors)]_vars

C27_Witness ==
    /\ pc = "Completed"
    /\ stats.emails_processed = 3
    /\ stats.orders_skipped = 1
    /\ stats.orders_updated = 1
    /\ Len(stats.errors) = 1

----------------------------------------------------------------------------
(* C28: the shipment status is last-writer-wins in processing order.  After
   a new message for an order the store holds was reconciled, the stored
   status is the status extracted from the message when that is not empty,
   whatever the stored status was, and is the status stored before when the
   extracted status is empty. *)
C28_LastWriterWins ==
    (Handled /\ Fresh /\ Extracted # <<>> /\
     OrdersOf(before.orders, Extracted[1].order_id) # {}) =>
        \A o \in OrdersOf(before.orders, Extracted[1].order_id) :
            \E p \in sess.orders :
                /\ p.id = o.id
                /\ p.shipment_status =
                      IF Extracted[1].shipment_status # None
                      THEN Extracted[1].shipment_status
                      ELSE o.shipment_status

C28_Witness ==
    /\ Handled
    /\ Fresh
    /\ Extracted # <<>>
    /\ Extracted[1].shipment_status = "Pending"
    /\ \E o \in OrdersOf(before.orders, Extracted[1].order_id) :
          /\ o.shipment_status = "Shipped"
          /\ \E p \in sess.orders : p.id = o.id /\ p.shipment_status = "Pending"

----------------------------------------------------------------------------
(* C29: dedup key of messages without a Message-ID header.  The message_id
   of a yielded email is the value of the header named exactly 'Message-ID',
   or the empty string when the message has no such header; an email whose
   message_id, the empty string included, equals that of a log row is
   skipped without being extracted or logged; so the log never holds more
   than one row for the empty message_id. *)
C29_EmptyMessageIdDedup ==
    /\ \A i \in 1..Len(yielded) : \A msg \in Mailbox :
          msg.id = yielded[i].id =>
              LET exact == {k \in 1..Len(msg.headers) : msg.headers[k][1] = "Message-ID"}
              IN  yielded[i].message_id =
                      IF exact = {} THEN "" ELSE msg.headers[SetMax(exact)][2]
    /\ (Handled /\ Logged(before.log, Current.message_id)) =>
          /\ outcome = "skipped"
          /\ "parse_email" \notin Range(calls)
          /\ sess = before
          /\ stats.orders_skipped = beforeStats.orders_skipped + 1
    /\ Cardinality(RowsOf(sess.log, "")) <= 1

C29_Witness ==
    /\ Handled
    /\ Len(yielded) = 2
    /\ yielded[1].id # yielded[2].id
    /\ yielded[1].message_id = ""
    /\ yielded[2].message_id = ""
    /\ outcome = "skipped"
    /\ \E l \in sess.log \ startDb.log : l.email_message_id = ""
    /\ Cardinality(RowsOf(sess.log, "")) = 1

----------------------------------------------------------------------------
(* C30: order reference of an audit entry.  The log entry written for a
   message with status 'success' references the stored order whose number
   was extracted from that message; every log entry with status 'failed'
   has no order reference and has an error detail. *)
C30_AuditOrderReference ==
    /\ (Handled /\ Fresh) =>
          \A l \in RowsOf(sess.log, Current.message_id) :
              l.processing_status = "success" =>
                  /\ Extracted # <<>>
                  /\ \E p \in sess.orders :
                        /\ p.order_number = Extracted[1].order_id
                        /\ l.amazon_order_id = <<p.id>>
    /\ \A l \in sess.log \cup db.log :
          /\ l.processing_status \in {"success", "failed"}
          /\ l.processing_status = "success" => l.amazon_order_id # <<>>
          /\ l.processing_status = "failed" =>
                l.amazon_order_id = <<>> /\ l.error_message # <<>>

C30_Witness ==
    /\ Handled /\ Fresh
    /\ Extracted # <<>>
    /\ \E l \in RowsOf(sess.log, Current.message_id) :
          /\ l.processing_status = "success"
          /\ \E p \in sess.orders :
                /\ p.order_number = Extracted[1].order_id
                /\ l.amazon_order_id = <<p.id>>
                /\ \E q \in sess.orders : q.id < p.id
    /\ \E f \in sess.log :
          /\ f.processing_status = "failed"
          /\ f.amazon_order_id = <<>>
          /\ f.error_message # <<>>

====
